---- MODULE Spec2Model ----
(***************************************************************************)
(* A model of ogn_lib.client.OgnClient (src/ogn_lib/client.py): one APRS   *)
(* session, its connect/login handshake, its receive loop and send, with   *)
(* the server and the transport as the environment; and of the decoders of *)
(* src/ogn_lib/parser.py: the registry the metaclass ParserBase keeps, its *)
(* dispatch, and the decoding of a record.                                 *)
(*                                                                         *)
(* Text is kept as TLA+ strings; Len, \o and SubSeq act on them as on      *)
(* sequences of characters, so str.strip, str.split, str.startswith and    *)
(* slices are computed character by character as Python computes them.     *)
(*                                                                         *)
(* The test-suite (src/tests/test_client.py) exercises members that the    *)
(* class in src/ogn_lib/client.py does not define: disconnect(),           *)
(* _keepalive(), _kill, _last_send, _connection_retries.  Those are        *)
(* modelled from the design document and are marked as such where they are *)
(* defined.  Everything else follows the source line by line.              *)
(***************************************************************************)
EXTENDS Integers, Sequences, FiniteSets, TLC

\* ---------------------------------------------------------------- bounds

\* Lines the server delivers on one transport after the login response.
MaxLines == 2
\* Clock ticks the environment may let pass.
MaxTime == 2
\* Lines written to one socket before the model stops sending more.
MaxSent == 2
\* Classes declared after the module has been imported.
MaxClasses == 2
\* Seconds that may pass between the two clock readings of one decode.
MaxLag == 1

\* The most comma-separated tokens the routing part of a header is given.
MaxTokens == 5

\* ----------------------------------------------------------------- state

VARIABLES
    passcode,        \* OgnClient.passcode            (client.py:49)
    filter_,         \* OgnClient.filter_, "" is None (client.py:53)
    _socket,         \* "unset" | "open" | "closed"   (client.py:69)
    _sock_file,      \* "unset" | "open" | "closed"   (client.py:71)
    _authenticated,  \* OgnClient._authenticated      (client.py:54)
    _kill,           \* kill flag (design document; only the tests name it)
    _last_send,      \* time of the last send (design document)
    login_status,    \* connect()'s local: the login response it last read
    handshake,       \* history: what the last connect() did, in order
    sent,            \* what sendall has written to _socket, in order
    wire,            \* lines the server will still deliver on _sock_file
    wireEnd,         \* "eof": the stream then ends; "error": the read fails
    pc,              \* "idle" | "readline": receive() is about to read
    line,            \* receive()'s local variable `line`
    reconnect,       \* receive()'s argument
    raw,             \* receive()'s argument
    readLog,         \* history: non-empty lines receive() read from _sock_file
    delivered,       \* history: what the callback has been called with
    retries,         \* history: connect() calls made by the running receive()
    reads,           \* history: what readline returned to the last receive()
                     \* on this connection
    raised,          \* exception the last call ended with, or "none"
    lastOp,          \* the last method that was called
    now,             \* the clock
    parsers,         \* ParserBase.parsers           (parser.py:24)
    registered,      \* history: the classes created since the import
    result           \* how the last call into the parser module ended

client_vars == <<passcode, filter_, _socket, _sock_file, _authenticated, _kill,
                 _last_send, login_status, handshake, sent, wire, wireEnd, pc, line,
                 reconnect, raw, readLog, delivered, retries, reads, raised,
                 lastOp, now>>

parser_vars == <<parsers, registered, result>>

vars == <<client_vars, parser_vars>>

session == <<_socket, _sock_file, _authenticated, _kill>>

\* ------------------------------------------------------------ text helpers

\* s[i] of Python, 1-based here.
Char(s, i) == SubSeq(s, i, i)

\* s[n:] of Python (n characters dropped from the front).
Drop(s, n) == SubSeq(s, n + 1, Len(s))

\* The characters str.strip() removes.
Whitespace == {" ", "\t", "\n", "\r", "\f"}

RECURSIVE lstrip(_, _)
lstrip(s, chars) ==
    IF Len(s) > 0 /\ Char(s, 1) \in chars
    THEN lstrip(Drop(s, 1), chars)
    ELSE s

RECURSIVE rstrip(_, _)
rstrip(s, chars) ==
    IF Len(s) > 0 /\ Char(s, Len(s)) \in chars
    THEN rstrip(SubSeq(s, 1, Len(s) - 1), chars)
    ELSE s

\* str.strip(): leading and trailing whitespace removed.
strip(s) == rstrip(lstrip(s, Whitespace), Whitespace)

\* str.strip('\n'): leading and trailing newlines removed.
strip_nl(s) == rstrip(lstrip(s, {"\n"}), {"\n"})

\* str.startswith(prefix).
startswith(s, prefix) ==
    /\ Len(s) >= Len(prefix)
    /\ SubSeq(s, 1, Len(prefix)) = prefix

\* str.find(sep), 1-based; 0 when sep does not occur.
RECURSIVE find_from(_, _, _)
find_from(s, sep, i) ==
    IF i + Len(sep) - 1 > Len(s) THEN 0
    ELSE IF SubSeq(s, i, i + Len(sep) - 1) = sep THEN i
    ELSE find_from(s, sep, i + 1)

find(s, sep) == find_from(s, sep, 1)

\* str.split(sep): the pieces between the occurrences of sep, left to right.
RECURSIVE split(_, _)
split(s, sep) ==
    LET i == find(s, sep) IN
    IF i = 0 THEN <<s>>
    ELSE <<SubSeq(s, 1, i - 1)>> \o split(Drop(s, i + Len(sep) - 1), sep)

\* str.split(sep, 1): at most one split.
split1(s, sep) ==
    LET i == find(s, sep) IN
    IF i = 0 THEN <<s>>
    ELSE <<SubSeq(s, 1, i - 1), Drop(s, i + Len(sep) - 1)>>

\* -------------------------------------------------------------- the client

\* The username the session is created with (tests: OgnClient('username')).
username == "username"

\* ogn_lib.__title__ and ogn_lib.__version__; the package's __init__ module
\* is not part of the source tree, the values are placeholders.
ogn_lib_title == "ogn-lib"

ogn_lib_version == "0.1"

\* OgnClient._gen_auth_message (client.py:123-139).
_gen_auth_message ==
    LET base == "user " \o username \o " pass " \o passcode \o " vers "
                    \o ogn_lib_title \o " " \o ogn_lib_version
    IN  IF filter_ # "" THEN base \o " filter " \o filter_ ELSE base

\* OgnClient.send (client.py:112-121): the socket's log after the call.
\* The message loses its leading and trailing newlines and gains one.
send(log, message) == Append(log, strip_nl(message) \o "\n")

\* How OgnClient._validate_login ends: a return value or an exception.
Returns(v) == [exc |-> "none", value |-> v]

Raises(e) == [exc |-> e, value |-> FALSE]

\* A validation that treats a wrong passcode as a failed login.
_validate_login_strict(message) ==
    IF ~startswith(message, "# logresp") THEN Raises("LoginError")
    ELSE
    LET parts == split(message, ", ") IN
    IF Len(parts) # 2 THEN Raises("ParseError")
    ELSE
    LET fields == split(Drop(parts[1], 10), " ") IN
    IF Len(fields) # 2 THEN Raises("ParseError")
    ELSE IF fields[2] = "verified" THEN Returns(TRUE)
    ELSE IF fields[2] = "unverified" /\ passcode = "-1" THEN Returns(FALSE)
    ELSE Raises("LoginError")

\* A validation that does not look for the marker before it takes the
\* response apart.
_validate_login_unmarked(message) ==
    LET parts == split(message, ", ") IN
    IF Len(parts) # 2 THEN Raises("ParseError")
    ELSE
    LET fields == split(Drop(parts[1], 10), " ") IN
    IF Len(fields) # 2 THEN Raises("ParseError")
    ELSE IF fields[2] = "verified" THEN Returns(TRUE)
    ELSE IF fields[2] = "unverified" THEN Returns(FALSE)
    ELSE Raises("LoginError")

\* OgnClient._validate_login (client.py:141-176).
_validate_login(message) ==
    IF ~startswith(message, "# logresp") THEN Raises("LoginError")
    ELSE
    LET parts == split(message, ", ") IN
    IF Len(parts) # 2 THEN Raises("ParseError")
    ELSE
    LET user_info == parts[1]
        serv_info == parts[2]
        fields == split(Drop(user_info, 10), " ")
    IN
    IF Len(fields) # 2 THEN Raises("ParseError")
    ELSE
    LET status == fields[2] IN
    IF status = "verified" THEN Returns(TRUE)
    ELSE IF status = "unverified" /\ passcode # "-1" THEN Returns(FALSE)
    ELSE IF status = "unverified" THEN Returns(FALSE)
    ELSE Raises("LoginError")

\* ---------------------------------------------------------- the environment

\* The greeting the server sends on connection (tests, _get_mocked_socket).
Greeting == "# aprsc 2.1.4-g408ed49\n"

\* Login-response lines a server may answer with; "" is a closed stream.
LoginResponses ==
    { "# logresp user verified, server GLIDERN3\n",
      "# logresp user unverified, server GLIDERN3\n",
      "# logresp user blocked, server GLIDERN3\n",
      "# aprsc 2.1.4-g408ed49\n",
      "# logresp 2.1.4-g408ed49\n",
      "" }

\* Lines a server may deliver afterwards: an APRS record, a server comment
\* (a line with no '>' in it), a blank line and a line of whitespace.
GoodLine == "FLRDD83BC>APRS,qAS,EDLF:/163148h5124.56N/00634.42E'276/075/A=001551\n"

BadLine == "# aprsc 2.1.4-g408ed49 2 Nov 2026 10:00:00 GMT GLIDERN3\n"

BlankLine == "\n"

SpaceLine == " \r\n"

Lines == {GoodLine, BadLine, BlankLine, SpaceLine}

\* All sequences over S of length at most n.
BoundedSeq(S, n) == UNION { [1..k -> S] : k \in 0..n }

\* The streams a server may deliver after the login response.
Streams == BoundedSeq(Lines, MaxLines)

\* Streams of APRS records only.
RecordStreams == BoundedSeq({GoodLine}, MaxLines)

\* The credentials a session is created with: a guest with no filter, and a
\* user with a passcode and a filter.
Credentials ==
    { [passcode |-> "-1", filter_ |-> ""],
      [passcode |-> "123456", filter_ |-> "r/33/13/150"] }

\* What self._sock_file.readline() does next (client.py:107, 110): the next
\* line of the stream, '' at its end, or an exception.
readline ==
    IF _sock_file # "open" THEN [exc |-> "ValueError", text |-> ""]
    ELSE IF wire # <<>> THEN [exc |-> "none", text |-> Head(wire)]
    ELSE IF wireEnd = "eof" THEN [exc |-> "none", text |-> ""]
    ELSE [exc |-> "BrokenPipeError", text |-> ""]

\* ------------------------------------------------------------------ connect

\* The frame of receive(): connect() runs only when no receive() does.
receive_frame == <<pc, line, reconnect, raw, retries>>

\* One step of connect(): the call it makes and the text read or written.
Step(op, text) == [op |-> op, text |-> text]

\* client.py:69: socket.create_connection raises; nothing has been assigned.
connect_refused ==
    /\ raised' = "ConnectionRefusedError"
    /\ handshake' = <<Step("create_connection", "")>>
    /\ UNCHANGED <<_socket, _sock_file, _authenticated, login_status, sent,
                   wire, wireEnd, readLog, delivered, reads>>

\* client.py:69-78: the transport is open and sendall fails with a
\* transport error, which is not caught.
connect_dropped ==
    /\ _socket' = "open"
    /\ _sock_file' = "open"
    /\ login_status' = ""
    /\ handshake' = <<Step("create_connection", ""),
                      Step("readline", Greeting),
                      Step("sendall", send(<<>>, _gen_auth_message)[1])>>
    /\ sent' = <<>>
    /\ wire' = <<>>
    /\ wireEnd' = "error"
    /\ readLog' = <<>>
    /\ delivered' = <<>>
    /\ reads' = <<>>
    /\ raised' = "BrokenPipeError"
    /\ UNCHANGED _authenticated

\* A cleanup that closes the read handle and forgets the socket.
connect_cleanup_leak ==
    /\ _sock_file' = "closed"
    /\ _socket' = "open"

\* client.py:88-89: the except clause closes the read handle and the socket.
connect_cleanup ==
    /\ _sock_file' = "closed"
    /\ _socket' = "closed"

\* client.py:82-91: validation failed: clean up and re-raise the exception.
connect_failed(exc) ==
    /\ connect_cleanup
    /\ raised' = exc
    /\ wire' = <<>>
    /\ wireEnd' = "eof"
    /\ UNCHANGED _authenticated

\* A connect() that sends the authentication line as soon as the transport
\* is open and reads the two lines of the server afterwards.
connect_handshake_eager(response, streams) ==
    LET served == <<Greeting, response>>
        auth == _gen_auth_message
        conn_response == strip(served[1])
        status == strip(served[2])
        v == _validate_login(status)
    IN
    /\ sent' = send(<<>>, auth)
    /\ login_status' = status
    /\ handshake' = <<Step("create_connection", ""),
                      Step("sendall", send(<<>>, auth)[1]),
                      Step("readline", served[1]),
                      Step("readline", served[2]),
                      Step("_validate_login", status)>>
    /\ readLog' = <<>>
    /\ delivered' = <<>>
    /\ reads' = <<>>
    /\ IF v.exc = "none"
       THEN /\ _socket' = "open"
            /\ _sock_file' = "open"
            /\ _authenticated' = v.value
            /\ wire' \in streams
            /\ wireEnd' \in {"eof", "error"}
            /\ raised' = "none"
       ELSE connect_failed(v.exc)

\* client.py:69-91 with a server that answers with its greeting and then
\* with `response`: the transport is opened (69-71), the first line read
\* (72), the authentication line sent (75-78), the second line read (79)
\* and validated (83).  The new read handle has delivered nothing to
\* receive() yet.
connect_handshake(response, streams) ==
    LET served == <<Greeting, response>>
        conn_response == strip(served[1])
        auth == _gen_auth_message
        status == strip(served[2])
        v == _validate_login(status)
    IN
    /\ sent' = send(<<>>, auth)
    /\ login_status' = status
    /\ handshake' = <<Step("create_connection", ""),
                      Step("readline", served[1]),
                      Step("sendall", send(<<>>, auth)[1]),
                      Step("readline", served[2]),
                      Step("_validate_login", status)>>
    /\ readLog' = <<>>
    /\ delivered' = <<>>
    /\ reads' = <<>>
    /\ IF v.exc = "none"
       THEN /\ _socket' = "open"
            /\ _sock_file' = "open"
            /\ _authenticated' = v.value
            /\ wire' \in streams
            /\ wireEnd' \in {"eof", "error"}
            /\ raised' = "none"
       ELSE connect_failed(v.exc)

\* OgnClient.connect (client.py:56-91), the server delivering one of
\* `streams` after a successful login.
connect_session(streams) ==
    /\ pc = "idle"
    /\ lastOp' = "connect"
    /\ \/ connect_refused
       \/ connect_dropped
       \/ \E response \in LoginResponses :
             connect_handshake(response, streams)
    /\ UNCHANGED <<passcode, filter_, _kill, _last_send, now>>
    /\ UNCHANGED receive_frame

connect == connect_session(Streams)

\* ------------------------------------------------------------------ receive

\* OgnClient.receive (client.py:93-105): the call; the body starts at 107.
\* Before the first connect() the session has no _sock_file attribute and
\* line 107 raises AttributeError.
receive ==
    /\ pc = "idle"
    /\ pc' = IF _sock_file = "unset" THEN "idle" ELSE "readline"
    /\ raised' = IF _sock_file = "unset" THEN "AttributeError" ELSE "none"
    /\ reconnect' \in BOOLEAN
    /\ raw' \in BOOLEAN
    /\ line' = ""
    /\ retries' = 0
    /\ reads' = <<>>
    /\ lastOp' = "receive"
    /\ UNCHANGED <<passcode, filter_, login_status, handshake, _socket, _sock_file,
                   _authenticated, _kill, _last_send, sent, wire, wireEnd,
                   readLog, delivered, now>>

\* A receive() that calls connect() once more before it gives up.
receive_on_error_retry(exc) ==
    /\ pc' = "idle"
    /\ raised' = exc
    /\ line' = ""
    /\ retries' = retries + 1
    /\ UNCHANGED <<_socket, _sock_file, _authenticated>>

\* client.py:107-110: receive() has no exception handler; an exception of
\* readline ends the call and reaches the caller, whatever `reconnect` is.
\* No connect() is called and the transport is left as it is.
receive_on_error(exc) ==
    /\ pc' = "idle"
    /\ raised' = exc
    /\ line' = ""
    /\ UNCHANGED <<retries, _socket, _sock_file, _authenticated>>

\* client.py:108-109: the loop body for a non-empty line: the line is
\* logged; neither a decoder nor the callback is called, nothing is sent.
receive_process(text) ==
    /\ readLog' = Append(readLog, text)
    /\ UNCHANGED <<delivered, sent>>

\* A receive() that ends at the end of the stream only and reads on after
\* a blank line.
receive_loop_to_eof ==
    /\ pc = "readline"
    /\ LET r == readline IN
       IF r.exc # "none"
       THEN /\ receive_on_error(r.exc)
            /\ UNCHANGED <<wire, readLog, delivered, sent, reads>>
       ELSE LET text == strip(r.text) IN
            /\ wire' = IF wire # <<>> THEN Tail(wire) ELSE wire
            /\ reads' = Append(reads, r.text)
            /\ raised' = "none"
            /\ UNCHANGED <<retries, _socket, _sock_file, _authenticated>>
            /\ IF r.text = ""
               THEN /\ pc' = "idle"
                    /\ line' = ""
                    /\ UNCHANGED <<readLog, delivered, sent>>
               ELSE /\ pc' = "readline"
                    /\ line' = text
                    /\ receive_process(text)
    /\ UNCHANGED <<passcode, filter_, login_status, handshake, _kill,
                   _last_send, wireEnd, reconnect, raw, lastOp, now>>

\* client.py:107-110: one readline().strip() and the test of the while
\* loop: an empty result ends the call, any other is logged and the loop
\* reads again.
receive_loop ==
    /\ pc = "readline"
    /\ LET r == readline IN
       IF r.exc # "none"
       THEN /\ receive_on_error(r.exc)
            /\ UNCHANGED <<wire, readLog, delivered, sent, reads>>
       ELSE LET text == strip(r.text) IN
            /\ wire' = IF wire # <<>> THEN Tail(wire) ELSE wire
            /\ reads' = Append(reads, r.text)
            /\ raised' = "none"
            /\ UNCHANGED <<retries, _socket, _sock_file, _authenticated>>
            /\ IF text = ""
               THEN /\ pc' = "idle"
                    /\ line' = ""
                    /\ UNCHANGED <<readLog, delivered, sent>>
               ELSE /\ pc' = "readline"
                    /\ line' = text
                    /\ receive_process(text)
    /\ UNCHANGED <<passcode, filter_, login_status, handshake, _kill,
                   _last_send, wireEnd, reconnect, raw, lastOp, now>>

\* --------------------------------------------------------------------- send

\* Texts a caller sends (test_client.py:167, 173).
Messages == {"test message", "\n\ntest\nmessage\n\n\n"}

\* A caller's send(message) (client.py:112-121).  sendall on a closed socket
\* raises OSError; before the first connect() there is no _socket attribute
\* and line 121 raises AttributeError.  No time stamp is recorded.
send_call ==
    /\ pc = "idle"
    /\ Len(sent) < MaxSent
    /\ \E message \in Messages :
          IF _socket = "open"
          THEN /\ sent' = send(sent, message)
               /\ raised' = "none"
          ELSE /\ raised' = IF _socket = "unset" THEN "AttributeError"
                            ELSE "OSError"
               /\ UNCHANGED sent
    /\ lastOp' = "send"
    /\ UNCHANGED <<passcode, filter_, login_status, _socket, _sock_file,
                   _authenticated, _kill, _last_send, wire, wireEnd, readLog,
                   delivered, now>>
    /\ UNCHANGED <<receive_frame, reads, handshake>>

\* ------------------------------------- members the source does not define

\* OgnClient._connection_retries: the reconnect budget the tests compare
\* the number of connect() calls with (test_client.py:120-122).  Its value
\* is given nowhere; any positive number serves.
_connection_retries == 3

\* The keepalive threshold, in clock ticks, and the keepalive line; the
\* design document fixes neither the number nor the text.
KeepaliveThreshold == 1

KeepaliveLine == "# keepalive"

\* A disconnect() that closes the read handle and forgets the socket.
disconnect_leak ==
    /\ pc = "idle"
    /\ _kill' = TRUE
    /\ _sock_file' = IF _sock_file = "open" THEN "closed" ELSE _sock_file
    /\ raised' = "none"
    /\ lastOp' = "disconnect"
    /\ UNCHANGED <<passcode, filter_, login_status, _socket, _authenticated,
                   _last_send, sent, wire, wireEnd, readLog, delivered, now>>
    /\ UNCHANGED <<receive_frame, reads, handshake>>

\* OgnClient.disconnect, from the design document: sets the kill flag and
\* closes the read handle and the socket if they are open.
disconnect ==
    /\ pc = "idle"
    /\ _kill' = TRUE
    /\ _sock_file' = IF _sock_file = "open" THEN "closed" ELSE _sock_file
    /\ _socket' = IF _socket = "open" THEN "closed" ELSE _socket
    /\ raised' = "none"
    /\ lastOp' = "disconnect"
    /\ UNCHANGED <<passcode, filter_, login_status, _authenticated,
                   _last_send, sent, wire, wireEnd, readLog, delivered, now>>
    /\ UNCHANGED <<receive_frame, reads, handshake>>

\* The kill flag set from outside the session's thread (design document,
\* concurrency model; test_client.py:129 assigns it directly).
set_kill ==
    /\ ~_kill
    /\ _kill' = TRUE
    /\ UNCHANGED <<passcode, filter_, login_status, _socket, _sock_file,
                   _authenticated, _last_send, sent, wire, wireEnd, readLog,
                   delivered, raised, lastOp, now>>
    /\ UNCHANGED <<receive_frame, reads, handshake>>

\* Whether keepalive has to send: more than the threshold since the last
\* send (design document).
keepalive_due == now - _last_send > KeepaliveThreshold

\* OgnClient._keepalive, from the design document: sends the no-op line
\* when it is due, through send().
_keepalive ==
    /\ pc = "idle"
    /\ _socket = "open"
    /\ Len(sent) < MaxSent
    /\ sent' = IF keepalive_due THEN send(sent, KeepaliveLine) ELSE sent
    /\ raised' = "none"
    /\ lastOp' = "keepalive"
    /\ UNCHANGED <<passcode, filter_, login_status, _socket, _sock_file,
                   _authenticated, _kill, _last_send, wire, wireEnd, readLog,
                   delivered, now>>
    /\ UNCHANGED <<receive_frame, reads, handshake>>

\* -------------------------------------------------------------------- clock

\* Time passes.
Tick ==
    /\ now < MaxTime
    /\ now' = now + 1
    /\ UNCHANGED <<passcode, filter_, login_status, _socket, _sock_file,
                   _authenticated, _kill, _last_send, sent, wire, wireEnd,
                   readLog, delivered, raised, lastOp>>
    /\ UNCHANGED <<receive_frame, reads, handshake>>

\* ----------------------------------------------------- the parser registry

\* A dict with d[key] = value assigned.
put(d, key, value) ==
    [k \in DOMAIN d \cup {key} |-> IF k = key THEN value ELSE d[k]]

\* An empty dict.
EmptyDict == [k \in {} |-> ""]

\* ParserBase.parsers once ogn_lib.parser is imported: the class statements
\* of Parser (parser.py:77), APRS (262-263) and Naviter (360-361) have run.
ImportedParsers ==
    put(put(put(put(EmptyDict, "Parser", "Parser"), "APRS", "APRS"),
            "OGNAVI", "Naviter"), "OGNAVI-1", "Naviter")

\* The values a class body may give __destto__.
NoDestto == [kind |-> "absent", str |-> "", seq |-> <<>>]

StrDestto(s) == [kind |-> "str", str |-> s, seq |-> <<>>]

SeqDestto(q) == [kind |-> "seq", str |-> "", seq |-> q]

IntDestto == [kind |-> "int", str |-> "", seq |-> <<>>]

NoneDestto == [kind |-> "None", str |-> "", seq |-> <<>>]

\* Class statements a program may run (test_parser.py:25-62): the name of
\* the class, the __destto__ of its body (absent, a string, a list, an
\* integer or None) and whether the body sets __default__.
ClassDecls ==
    { [name |-> "Callsign", destto |-> NoDestto, default |-> FALSE],
      [name |-> "Callsign", destto |-> StrDestto("CALLSIGN"), default |-> FALSE],
      [name |-> "Callsign",
       destto |-> SeqDestto(<<"CALLSIGN1", "CALLSIGN2">>), default |-> FALSE],
      [name |-> "Other",
       destto |-> SeqDestto(<<"CALLSIGN2", "APRS">>), default |-> FALSE],
      [name |-> "Other", destto |-> IntDestto, default |-> FALSE],
      [name |-> "Anon", destto |-> NoneDestto, default |-> FALSE],
      [name |-> "Fallback", destto |-> NoDestto, default |-> TRUE] }

\* parser.py:41-42: the for loop over a sequence of callsigns.
RECURSIVE register_each(_, _, _)
register_each(d, callsigns, class_) ==
    IF callsigns = <<>> THEN d
    ELSE register_each(put(d, Head(callsigns), class_), Tail(callsigns),
                       class_)

\* A registration that leaves a token with the decoder it already has.
RECURSIVE register_new_only(_, _, _)
register_new_only(d, callsigns, class_) ==
    IF callsigns = <<>> THEN d
    ELSE register_new_only(IF Head(callsigns) \in DOMAIN d THEN d
                           ELSE put(d, Head(callsigns), class_),
                           Tail(callsigns), class_)

new_keeps_first(dct) ==
    LET callsigns == IF dct.destto.kind = "absent" THEN StrDestto(dct.name)
                     ELSE dct.destto
    IN  IF callsigns.kind = "str"
        THEN Returns(register_new_only(parsers, <<callsigns.str>>, dct.name))
        ELSE IF callsigns.kind = "seq"
        THEN Returns(register_new_only(parsers, callsigns.seq, dct.name))
        ELSE Raises("TypeError")

\* ParserBase.__new__ (parser.py:26-48): the registry after the class is
\* created, or the exception.  A body without __destto__ registers the
\* class under its own name; __default__ is not looked at.
__new__(dct) ==
    LET callsigns == IF dct.destto.kind = "absent" THEN StrDestto(dct.name)
                     ELSE dct.destto
    IN  IF callsigns.kind = "str"
        THEN Returns(put(parsers, callsigns.str, dct.name))
        ELSE IF callsigns.kind = "seq"
        THEN Returns(register_each(parsers, callsigns.seq, dct.name))
        ELSE Raises("TypeError")

\* What a call into the parser module leaves behind: the callable, how it
\* ended, the decoder class it used, its argument, the dict it returned and
\* the two readings of the clock it made.
Outcome(op, exc, parser, arg, data, clock) ==
    [op |-> op, exc |-> exc, parser |-> parser, arg |-> arg, data |-> data,
     clock |-> clock]

\* What a call that ended as r did leaves behind.
Ended(op, parser, arg, clock, r) ==
    Outcome(op, r.exc, parser, arg,
            IF r.exc = "none" THEN r.value ELSE EmptyDict, clock)

\* A class statement whose metaclass is ParserBase; the body of the class is
\* kept beside the way the statement ended.
class_statement ==
    /\ Len(registered) < MaxClasses
    /\ \E dct \in ClassDecls :
          LET r == __new__(dct) IN
          /\ parsers' = IF r.exc = "none" THEN r.value ELSE parsers
          /\ registered' = IF r.exc = "none" THEN Append(registered, dct)
                           ELSE registered
          /\ result' = Outcome("class", r.exc, dct.name, "", dct, <<0, 0>>)
    /\ UNCHANGED client_vars

\* ------------------------------------------------------- numbers and dicts

\* str.endswith(suffix).
endswith(s, suffix) ==
    /\ Len(s) >= Len(suffix)
    /\ SubSeq(s, Len(s) - Len(suffix) + 1, Len(s)) = suffix

\* sep.join(pieces).
RECURSIVE join(_, _)
join(pieces, sep) ==
    IF Len(pieces) = 0 THEN ""
    ELSE IF Len(pieces) = 1 THEN pieces[1]
    ELSE pieces[1] \o sep \o join(Tail(pieces), sep)

\* str.replace(old, new).
replace(s, old, new) == join(split(s, old), new)

\* The digits of a base, in order of value.
DigitsOf(base) == IF base = 16 THEN "0123456789abcdef" ELSE "0123456789"

UpperDigitsOf(base) == IF base = 16 THEN "0123456789ABCDEF" ELSE "0123456789"

\* Whether c is a digit of the base.
IsDigit(c, base) ==
    \E i \in 1..base : Char(DigitsOf(base), i) = c
                       \/ Char(UpperDigitsOf(base), i) = c

\* The value of the digit c.
DigitValue(c, base) ==
    (CHOOSE i \in 1..base : Char(DigitsOf(base), i) = c
                            \/ Char(UpperDigitsOf(base), i) = c) - 1

\* Whether s is a non-empty run of digits of the base.
IsDigits(s, base) ==
    Len(s) > 0 /\ \A i \in 1..Len(s) : IsDigit(Char(s, i), base)

\* The number a run of digits writes.
RECURSIVE DigitsValue(_, _)
DigitsValue(s, base) ==
    IF Len(s) = 0 THEN 0
    ELSE DigitsValue(SubSeq(s, 1, Len(s) - 1), base) * base
         + DigitValue(Char(s, Len(s)), base)

\* Whether int(s, base) returns: an optional sign and digits.
IsInt(s, base) ==
    IF Len(s) > 0 /\ Char(s, 1) \in {"+", "-"} THEN IsDigits(Drop(s, 1), base)
    ELSE IsDigits(s, base)

\* int(s, base) where it returns; it raises ValueError otherwise.
int(s, base) ==
    IF Char(s, 1) = "-" THEN 0 - DigitsValue(Drop(s, 1), base)
    ELSE IF Char(s, 1) = "+" THEN DigitsValue(Drop(s, 1), base)
    ELSE DigitsValue(s, base)

\* The greatest common divisor of two natural numbers.
RECURSIVE GCD(_, _)
GCD(a, b) == IF b = 0 THEN a ELSE GCD(b, a % b)

\* A float of the program, kept exactly as a fraction in lowest terms with
\* den > 0.
Rat(num, den) ==
    LET g == GCD(IF num < 0 THEN 0 - num ELSE num, den) IN
    [num |-> num \div g, den |-> den \div g]

RatAdd(a, b) ==
    LET g == GCD(a.den, b.den) IN
    Rat(a.num * (b.den \div g) + b.num * (a.den \div g),
        a.den * (b.den \div g))

RatMul(a, b) == Rat(a.num * b.num, a.den * b.den)

RatEq(a, b) == Rat(a.num, a.den) = Rat(b.num, b.den)

RatLess(a, b) ==
    LET g == GCD(a.den, b.den) IN
    a.num * (b.den \div g) < b.num * (a.den \div g)

\* n ** k.
RECURSIVE Pow(_, _)
Pow(n, k) == IF k = 0 THEN 1 ELSE n * Pow(n, k - 1)

\* Whether float(s) returns, for the decimal notation the records use: an
\* optional sign, digits, and optionally a point and more digits.
IsFloat(s) ==
    LET body == IF Len(s) > 0 /\ Char(s, 1) \in {"+", "-"} THEN Drop(s, 1)
                ELSE s
        parts == split(body, ".")
    IN  /\ Len(parts) \in {1, 2}
        /\ \A i \in 1..Len(parts) : IsDigits(parts[i], 10)

\* float(s) where it returns.
float(s) ==
    LET negative == Char(s, 1) = "-"
        body == IF Char(s, 1) \in {"+", "-"} THEN Drop(s, 1) ELSE s
        parts == split(body, ".")
        fraction == IF Len(parts) = 2 THEN parts[2] ELSE ""
        scale == Pow(10, Len(fraction))
        magnitude == DigitsValue(parts[1], 10) * scale
                     + DigitsValue(fraction, 10)
    IN  Rat(IF negative THEN 0 - magnitude ELSE magnitude, scale)

\* a & b on non-negative integers.
RECURSIVE BitAnd(_, _)
BitAnd(a, b) ==
    IF a = 0 \/ b = 0 THEN 0
    ELSE (a % 2) * (b % 2) + 2 * BitAnd(a \div 2, b \div 2)

\* a >> n.
ShiftRight(a, n) == a \div Pow(2, n)

\* dict.update: d with the items of e.
update(d, e) ==
    [k \in DOMAIN d \cup DOMAIN e |-> IF k \in DOMAIN e THEN e[k] ELSE d[k]]

\* A call that ended as r did, followed by Rest(its value): an exception
\* of the call leaves the caller as it is.
and_then(r, Rest(_)) == IF r.exc # "none" THEN r ELSE Rest(r.value)

\* None, and a value where None may stand.
None == [is_none |-> TRUE, value |-> 0]

Some(v) == [is_none |-> FALSE, value |-> v]

\* ------------------------------------------------------------ the decoders

\* s[a:b] of Python, a and b counted from 0 and b clipped to the length.
Slice(s, a, b) == SubSeq(s, a + 1, IF b < Len(s) THEN b ELSE Len(s))

\* a << n.
ShiftLeft(a, n) == a * Pow(2, n)

\* parser.py:9-11, 13.  A timedelta is a number of seconds.
FEET_TO_METERS == Rat(3048, 10000)

KNOTS_TO_MS == Rat(1852, 3600)

HPM_TO_DEGS == Rat(180, 60)

TD_1DAY == 86400

\* constants.AirplaneType(value) and constants.AddressType(value): the
\* member of the enumeration with that value.  ogn_lib/constants.py is not
\* part of the source; a member is kept as its value.
AirplaneType(value) == [enum |-> "AirplaneType", value |-> value]

AddressType(value) == [enum |-> "AddressType", value |-> value]

\* The date of a datetime, as the number of its day, and its time of day.
DateOf(datetime) == datetime \div TD_1DAY

TimeOf(datetime) == datetime % TD_1DAY

\* A decoder of time stamps that moves every time after the clock back.
parse_timestamp_no_tolerance(timestamp_str, utcnow1, utcnow2) ==
    LET hms == [x \in 0..2 |-> Slice(timestamp_str, x * 2, x * 2 + 2)] IN
    IF \E x \in 0..2 : ~IsInt(hms[x], 10) THEN Raises("ValueError")
    ELSE IF \/ int(hms[0], 10) \notin 0..23
            \/ int(hms[1], 10) \notin 0..59
            \/ int(hms[2], 10) \notin 0..59
    THEN Raises("ValueError")
    ELSE
    LET ts == int(hms[0], 10) * 3600 + int(hms[1], 10) * 60 + int(hms[2], 10)
        full_ts == DateOf(utcnow1) * TD_1DAY + ts
    IN  Returns(IF utcnow2 - full_ts < 0 THEN full_ts - TD_1DAY ELSE full_ts)

\* Parser._parse_timestamp (parser.py:181-202).  utcnow1 and utcnow2 are what
\* the two calls of datetime.utcnow() return (lines 193 and 195), in whole
\* seconds: full_ts has whole seconds, so td < -300 is decided by the whole
\* seconds of the second reading.
_parse_timestamp(timestamp_str, utcnow1, utcnow2) ==
    LET hms == [x \in 0..2 |-> Slice(timestamp_str, x * 2, x * 2 + 2)] IN
    IF \E x \in 0..2 : ~IsInt(hms[x], 10) THEN Raises("ValueError")
    ELSE IF \/ int(hms[0], 10) \notin 0..23
            \/ int(hms[1], 10) \notin 0..59
            \/ int(hms[2], 10) \notin 0..59
    THEN Raises("ValueError")
    ELSE
    LET ts == int(hms[0], 10) * 3600 + int(hms[1], 10) * 60 + int(hms[2], 10)
        full_ts == DateOf(utcnow1) * TD_1DAY + ts
        td == utcnow2 - full_ts
    IN  Returns(IF td < -300 THEN full_ts - TD_1DAY ELSE full_ts)

\* Parser._parse_location (parser.py:204-223).
_parse_location(location_str) ==
    IF Len(location_str) = 0 THEN Raises("IndexError")
    ELSE
    LET sphere == Char(location_str, Len(location_str))
        offset == IF sphere \in {"N", "S"} THEN 2 ELSE 3
        degrees == Slice(location_str, 0, offset)
        minutes == Slice(location_str, offset, offset + 5)
    IN
    IF ~IsInt(degrees, 10) \/ ~IsFloat(minutes) THEN Raises("ValueError")
    ELSE
    LET location == RatAdd(Rat(int(degrees, 10), 1),
                           RatMul(float(minutes), Rat(1, 60)))
    IN  Returns(IF sphere \in {"S", "W"} THEN RatMul(location, Rat(-1, 1))
                ELSE location)

\* A decoder of positions that takes the course for known only when both
\* numbers are set.
parse_position_both_set(pos_header, utcnow1, utcnow2) ==
    LET rest == split1(Drop(pos_header, 7), "'") IN
    IF Len(rest) # 2 THEN Raises("ValueError")
    ELSE
    LET position == rest[1]
        attrs == rest[2]
        latlon == split(position, "/")
        numbers == split(replace(attrs, "A=", ""), "/")
    IN
    IF Len(latlon) # 2 THEN Raises("ValueError")
    ELSE IF Len(numbers) # 3 THEN Raises("ValueError")
    ELSE IF \E i \in 1..3 : ~IsInt(numbers[i], 10) THEN Raises("ValueError")
    ELSE
    LET heading == int(numbers[1], 10)
        speed == int(numbers[2], 10)
        altitude == int(numbers[3], 10)
        timestamp == _parse_timestamp(Slice(pos_header, 0, 6), utcnow1,
                                      utcnow2)
        latitude == _parse_location(latlon[1])
        longitude == _parse_location(latlon[2])
    IN
    IF timestamp.exc # "none" THEN Raises(timestamp.exc)
    ELSE IF latitude.exc # "none" THEN Raises(latitude.exc)
    ELSE IF longitude.exc # "none" THEN Raises(longitude.exc)
    ELSE Returns([timestamp |-> timestamp.value,
                  latitude |-> latitude.value,
                  longitude |-> longitude.value,
                  altitude |-> RatMul(Rat(altitude, 1), FEET_TO_METERS),
                  heading |-> IF heading # 0 /\ speed # 0 THEN Some(heading)
                              ELSE None,
                  ground_speed |->
                      IF heading # 0 /\ speed # 0
                      THEN Some(RatMul(Rat(speed, 1), KNOTS_TO_MS))
                      ELSE None])

\* Parser._parse_position (parser.py:148-179).
_parse_position(pos_header, utcnow1, utcnow2) ==
    LET rest == split1(Drop(pos_header, 7), "'") IN
    IF Len(rest) # 2 THEN Raises("ValueError")
    ELSE
    LET position == rest[1]
        attrs == rest[2]
        latlon == split(position, "/")
        numbers == split(replace(attrs, "A=", ""), "/")
    IN
    IF Len(latlon) # 2 THEN Raises("ValueError")
    ELSE IF Len(numbers) # 3 THEN Raises("ValueError")
    ELSE IF \E i \in 1..3 : ~IsInt(numbers[i], 10) THEN Raises("ValueError")
    ELSE
    LET heading == int(numbers[1], 10)
        speed == int(numbers[2], 10)
        altitude == int(numbers[3], 10)
        timestamp == _parse_timestamp(Slice(pos_header, 0, 6), utcnow1,
                                      utcnow2)
        latitude == _parse_location(latlon[1])
        longitude == _parse_location(latlon[2])
    IN
    IF timestamp.exc # "none" THEN Raises(timestamp.exc)
    ELSE IF latitude.exc # "none" THEN Raises(latitude.exc)
    ELSE IF longitude.exc # "none" THEN Raises(longitude.exc)
    ELSE Returns([timestamp |-> timestamp.value,
                  latitude |-> latitude.value,
                  longitude |-> longitude.value,
                  altitude |-> RatMul(Rat(altitude, 1), FEET_TO_METERS),
                  heading |-> IF heading # 0 \/ speed # 0 THEN Some(heading)
                              ELSE None,
                  ground_speed |->
                      IF heading # 0 \/ speed # 0
                      THEN Some(RatMul(Rat(speed, 1), KNOTS_TO_MS))
                      ELSE None])

\* APRS.FLAGS_* (parser.py:269-272).
APRS_FLAGS_STEALTH == ShiftLeft(1, 7)

APRS_FLAGS_DO_NOT_TRACK == ShiftLeft(1, 6)

APRS_FLAGS_AIRCRAFT_TYPE == ShiftLeft(15, 2)

APRS_FLAGS_ADDRESS_TYPE == 3

\* An APRS decoder of ids that takes the aircraft type from the low bits.
APRS_parse_id_string_unshifted(id_string) ==
    IF ~IsInt(Slice(id_string, 0, 2), 16) THEN Raises("ValueError")
    ELSE
    LET flags == int(Slice(id_string, 0, 2), 16) IN
    Returns([uid |-> id_string,
             stealth |-> BitAnd(flags, APRS_FLAGS_STEALTH) # 0,
             do_not_track |-> BitAnd(flags, APRS_FLAGS_DO_NOT_TRACK) # 0,
             aircraft_type |-> AirplaneType(BitAnd(flags, 15)),
             address_type |->
                 AddressType(BitAnd(flags, APRS_FLAGS_ADDRESS_TYPE))])

\* APRS._parse_id_string (parser.py:339-357).
APRS_parse_id_string(id_string) ==
    IF ~IsInt(Slice(id_string, 0, 2), 16) THEN Raises("ValueError")
    ELSE
    LET flags == int(Slice(id_string, 0, 2), 16) IN
    Returns([uid |-> id_string,
             stealth |-> BitAnd(flags, APRS_FLAGS_STEALTH) # 0,
             do_not_track |-> BitAnd(flags, APRS_FLAGS_DO_NOT_TRACK) # 0,
             aircraft_type |->
                 AirplaneType(ShiftRight(BitAnd(flags,
                                                APRS_FLAGS_AIRCRAFT_TYPE), 2)),
             address_type |->
                 AddressType(BitAnd(flags, APRS_FLAGS_ADDRESS_TYPE))])

\* Naviter.FLAGS_* (parser.py:367-370).
Naviter_FLAGS_STEALTH == ShiftLeft(1, 15)

Naviter_FLAGS_DO_NOT_TRACK == ShiftLeft(1, 14)

Naviter_FLAGS_AIRCRAFT_TYPE == ShiftLeft(15, 10)

Naviter_FLAGS_ADDRESS_TYPE == ShiftLeft(63, 4)

\* Naviter._parse_id_string (parser.py:411-430).
Naviter_parse_id_string(id_string) ==
    IF ~IsInt(Slice(id_string, 0, 4), 16) THEN Raises("ValueError")
    ELSE
    LET flags == int(Slice(id_string, 0, 4), 16) IN
    Returns([uid |-> id_string,
             stealth |-> BitAnd(flags, Naviter_FLAGS_STEALTH) # 0,
             do_not_track |-> BitAnd(flags, Naviter_FLAGS_DO_NOT_TRACK) # 0,
             aircraft_type |->
                 AirplaneType(ShiftRight(
                     BitAnd(flags, Naviter_FLAGS_AIRCRAFT_TYPE), 10)),
             address_type |->
                 AddressType(ShiftRight(
                     BitAnd(flags, Naviter_FLAGS_ADDRESS_TYPE), 4))])

\* ------------------------------------------------------ decoding a record

\* Parser._parse_origin with the relayer's token taken as it is written.
parse_origin_unstripped(header) ==
    LET fields == split(header, ",") IN
    IF Len(fields) = 3
    THEN Returns([destto |-> fields[1], receiver |-> fields[3],
                  relayer |-> None])
    ELSE IF Len(fields) = 4
    THEN Returns([destto |-> fields[1], receiver |-> fields[4],
                  relayer |-> Some(fields[2])])
    ELSE Raises("ValueError")

\* Parser._parse_origin (parser.py:125-146).
_parse_origin(header) ==
    LET fields == split(header, ",") IN
    IF Len(fields) = 3
    THEN Returns([destto |-> fields[1], receiver |-> fields[3],
                  relayer |-> None])
    ELSE IF Len(fields) = 4
    THEN Returns([destto |-> fields[1], receiver |-> fields[4],
                  relayer |-> Some(rstrip(lstrip(fields[2], {"*"}), {"*"}))])
    ELSE Raises("ValueError")

\* Parser._parse_header (parser.py:107-123).
_parse_header(header, utcnow1, utcnow2) ==
    LET parts == split1(header, ":/") IN
    IF Len(parts) # 2 THEN Raises("ValueError")
    ELSE
    and_then(_parse_origin(parts[1]), LAMBDA data :
        and_then(_parse_position(parts[2], utcnow1, utcnow2),
                 LAMBDA position : Returns(update(data, position))))

\* Parser._get_location_update_func (parser.py:230-242): the partial
\* function, kept as the digit it adds.
_get_location_update_func(update_with) == [update |-> update_with]

\* A refinement that adds the digit whatever the sign of the coordinate.
update_location_decimal_unsigned(existing, update_) ==
    RatAdd(existing, Rat(update_, 60000))

\* Parser._update_location_decimal (parser.py:244-259).
_update_location_decimal(existing, update_) ==
    LET delta == IF RatLess(existing, Rat(0, 1)) THEN 0 - update_ ELSE update_
    IN  RatAdd(existing, Rat(delta, 60000))

\* parser.py:287-303 and 385-401: a '!..!' field of a comment.
third_decimal(data, field) ==
    IF Len(field) < 3 THEN Raises("IndexError")
    ELSE IF ~IsInt(Char(field, 3), 10) THEN Raises("ValueError")
    ELSE IF Len(field) < 4 THEN Raises("IndexError")
    ELSE IF ~IsInt(Char(field, 4), 10) THEN Raises("ValueError")
    ELSE
    LET update_position ==
            << [target |-> "latitude",
                function |->
                    _get_location_update_func(int(Char(field, 3), 10))],
               [target |-> "longitude",
                function |->
                    _get_location_update_func(int(Char(field, 4), 10))] >>
    IN  Returns(put(data, "_update",
                    IF "_update" \in DOMAIN data
                    THEN data["_update"] \o update_position
                    ELSE update_position))

\* data[key] = int(text) * factor, or the ValueError of int.
put_int(data, key, text, base, factor) ==
    IF ~IsInt(text, base) THEN Raises("ValueError")
    ELSE Returns(put(data, key, RatMul(Rat(int(text, base), 1), factor)))

\* data[key] = float(text) * factor, or the ValueError of float.
put_float(data, key, text, factor) ==
    IF ~IsFloat(text) THEN Raises("ValueError")
    ELSE Returns(put(data, key, RatMul(float(text), factor)))

\* data.update(r) where r is what a decoder returned, or its exception.
update_with(data, r) ==
    IF r.exc # "none" THEN r ELSE Returns(update(data, r.value))

\* s[:-n] of Python.
DropLast(s, n) == SubSeq(s, 1, Len(s) - n)

\* data[key].append(item), the list created when it is not there
\* (parser.py:330-333).
append_to(data, key, item) ==
    put(data, key, IF key \in DOMAIN data THEN Append(data[key], item)
                   ELSE <<item>>)

\* One turn of the loop of APRS._parse_comment (parser.py:286-335).
APRS_comment_field(data, field) ==
    IF startswith(field, "!") /\ endswith(field, "!")
    THEN third_decimal(data, field)
    ELSE IF startswith(field, "id")
    THEN update_with(data, APRS_parse_id_string(Drop(field, 2)))
    ELSE IF endswith(field, "fpm")
    THEN put_int(data, "vertical_speed", DropLast(field, 3), 10,
                 FEET_TO_METERS)
    ELSE IF endswith(field, "rot")
    THEN put_float(data, "turn_rate", DropLast(field, 3), HPM_TO_DEGS)
    ELSE IF startswith(field, "FL")
    THEN put_float(data, "flight_level", Drop(field, 2), Rat(1, 1))
    ELSE IF endswith(field, "dB")
    THEN put_float(data, "signal_to_noise_ratio", DropLast(field, 2),
                   Rat(1, 1))
    ELSE IF endswith(field, "e")
    THEN put_int(data, "error_count", DropLast(field, 1), 10, Rat(1, 1))
    ELSE IF endswith(field, "kHz")
    THEN put_float(data, "frequency_offset", DropLast(field, 3), Rat(1, 1))
    ELSE IF startswith(field, "gps")
    THEN IF Len(field) < 6 THEN Raises("IndexError")
         ELSE IF ~IsInt(Char(field, 6), 10) \/ ~IsInt(Char(field, 4), 10)
         THEN Raises("ValueError")
         ELSE Returns(put(data, "gps_quality",
                          [vertical |-> int(Char(field, 6), 10),
                           horizontal |-> int(Char(field, 4), 10)]))
    ELSE IF startswith(field, "s")
    THEN Returns(put(data, "flarm_software", Drop(field, 1)))
    ELSE IF startswith(field, "r")
    THEN Returns(put(data, "flarm_id", Drop(field, 1)))
    ELSE IF endswith(field, "dBm")
    THEN put_float(data, "power_ratio", DropLast(field, 3), Rat(1, 1))
    ELSE IF startswith(field, "hear")
    THEN Returns(append_to(data, "other_devices", Drop(field, 4)))
    ELSE IF startswith(field, "h")
    THEN put_int(data, "flarm_hardware", Drop(field, 1), 16, Rat(1, 1))
    ELSE Returns(data)

\* One turn of the loop of Naviter._parse_comment (parser.py:384-407).
Naviter_comment_field(data, field) ==
    IF startswith(field, "!") /\ endswith(field, "!")
    THEN third_decimal(data, field)
    ELSE IF startswith(field, "id")
    THEN update_with(data, Naviter_parse_id_string(Drop(field, 2)))
    ELSE IF endswith(field, "fpm")
    THEN put_int(data, "vertical_speed", DropLast(field, 3), 10,
                 FEET_TO_METERS)
    ELSE IF endswith(field, "rot")
    THEN put_float(data, "turn_rate", DropLast(field, 3), HPM_TO_DEGS)
    ELSE Returns(data)

\* The loop over the fields of a comment, for the decoder class cls.
RECURSIVE comment_fields(_, _, _)
comment_fields(cls, data, fields) ==
    IF fields = <<>> THEN Returns(data)
    ELSE and_then(IF cls = "APRS"
                  THEN APRS_comment_field(data, Head(fields))
                  ELSE Naviter_comment_field(data, Head(fields)),
                  LAMBDA updated : comment_fields(cls, updated, Tail(fields)))

\* cls._parse_comment (parser.py:225-228, 274-337, 372-409): the classes
\* APRS and Naviter have their own, every other class inherits the one of
\* Parser, which returns {}.
_parse_comment(cls, comment) ==
    IF cls \in {"APRS", "Naviter"}
    THEN comment_fields(cls, EmptyDict, split(comment, " "))
    ELSE Returns(EmptyDict)

\* Parser.parse_message (parser.py:85-105), inherited by every decoder
\* class.
parse_message(cls, raw_message, utcnow1, utcnow2) ==
    LET parts == split1(raw_message, ">") IN
    IF Len(parts) # 2 THEN Raises("ValueError")
    ELSE
    LET from_ == parts[1]
        rest == split1(parts[2], " ")
    IN  and_then(_parse_header(rest[1], utcnow1, utcnow2), LAMBDA header :
            IF Len(rest) = 2
            THEN update_with(update([from |-> from_], header),
                             _parse_comment(cls, rest[2]))
            ELSE Returns(update([from |-> from_], header)))

\* ----------------------------------------------------------------- dispatch

\* The decoder class ParserBase.__call__ selects for the record
\* (parser.py:63-67), "" when there is none.
selected_parser(raw_message) ==
    LET parts == split1(raw_message, ">") IN
    IF Len(parts) # 2 THEN ""
    ELSE LET destto == split1(parts[2], ",")[1] IN
         IF destto \in DOMAIN parsers THEN parsers[destto] ELSE ""

\* ParserBase.__call__ (parser.py:50-74).  The except clause names
\* exceptions.ParserNotFoundError, which exceptions.py does not define, so
\* what leaves it is the AttributeError of that lookup.  Nothing catches
\* what parse_message raises, and no default decoder is looked for.
__call__(raw_message, utcnow1, utcnow2) ==
    LET parts == split1(raw_message, ">") IN
    IF Len(parts) # 2 THEN Raises("ValueError")
    ELSE
    LET destto == split1(parts[2], ",")[1] IN
    IF destto \notin DOMAIN parsers THEN Raises("AttributeError")
    ELSE parse_message(parsers[destto], raw_message, utcnow1, utcnow2)

\* Records handed to the registry (test_parser.py:64-107, 182-222, 372-374):
\* for a registered and for an unregistered token, with and without a
\* comment, one cut short and one line that is no record.
RawMessages ==
    { "FLRDD83BC>APRS,qAS,EDLF:/163148h5124.56N/00634.42E'276/075/A=001551",
      "FLRDD83BC>CALLSIGN,qAS,EDLF:/163148h5124.56N/00634.42E'276/075/A=001551",
      "FLRDD83BC>APRS-1,qAS,EDLF:/163148h5124.56N/00634.42E'276/075/A=001551",
      "FLRDD83BC>Unknown,qAS,EDLF:/163148h5124.56N/00634.42E'276/075/A=001551",
      "FLR123456>APRS,",
      "NAV07220E>OGNAVI,qAS,NAVITER:/125447h4557.77N/01220.19E'258/056/A=006562"
          \o " !W76! id1C4007220E +180fpm +0.0rot",
      "FLRDD83BC>APRS,qAS,EDLF:/163148h5124.56N/00634.42E'276/075/A=001551"
          \o " !W12! id06DF0A52 +020fpm +0.0rot FL000.00 55.2dB 0e -6.2kHz"
          \o " gps4x6 s6.01 h03 rDDACC4 +5.0dBm hearD7EA hearDA95",
      "# aprsc 2.1.4-g408ed49" }

\* The clock at a dispatch: noon of day 1, at both readings.
DispatchClock == <<TD_1DAY + 43200, TD_1DAY + 43200>>

\* A call of the registry with a record: ParserBase.__call__(raw_message).
call_dispatch ==
    /\ \E raw_message \in RawMessages :
          result' = Ended("__call__", selected_parser(raw_message),
                          raw_message, DispatchClock,
                          __call__(raw_message, DispatchClock[1],
                                   DispatchClock[2]))
    /\ UNCHANGED <<client_vars, parsers, registered>>

\* ---------------------------------------------------- calls of the decoders

\* Times of day, in seconds, at which a record is decoded.
ClockTimes == {0, 1, 299, 300, 301, 43200, 86099, 86100, 86399}

\* The two readings of the clock one decode makes: the second on day 1, the
\* first at most MaxLag seconds before it.
ClockReads ==
    { <<TD_1DAY + t - lag, TD_1DAY + t>> : t \in ClockTimes, lag \in 0..MaxLag }

\* Time stamps of records (test_parser.py:182, 287-303), two of them
\* malformed.
TimeStrings ==
    { "000000", "000001", "000300", "000500", "000501", "115959", "120000",
      "120001", "120500", "120501", "163148", "235459", "235500", "235959",
      "240000", "12a000" }

\* Encoded headings and speeds (test_parser.py:253-261).
Headings == {"000", "001", "276", "360"}

Speeds == {"000", "001", "075", "100"}

\* Position parts of a header (test_parser.py:182-183), two of them
\* malformed.
PositionHeaders ==
    { "163148h5124.56N/00634.42E'" \o h \o "/" \o s \o "/A=001551" :
          h \in Headings, s \in Speeds }
    \cup { "163148h5124.56N/00634.42E", "163148h5124.56N/00634.42E'276/A=001551" }

\* Hexadecimal digits ids are written with.
HexChars == { Char(UpperDigitsOf(16), i) : i \in 1..16 }

\* Ids of APRS records (test_parser.py:402-410): every flags byte.
APRS_ids == { a \o b \o "DF0A52" : a \in HexChars, b \in HexChars }

\* Ids of Naviter records (test_parser.py:432-440): flags that set and clear
\* every field.
Naviter_ids ==
    { a \o b \o c \o d \o "07220E" :
          a \in {"0", "1", "4", "8", "F"}, b \in {"0", "3", "C", "F"},
          c \in {"0", "4", "F"}, d \in {"0", "F"} }

\* Tokens of the routing part of a header (test_parser.py:182, 241-245).
RoutingTokens == {"APRS", "RELAYER*", "qAS", "EDLF"}

\* Routing parts of headers: one to MaxTokens tokens, the empty string and
\* relayers written with more than one '*'.
Origins ==
    { join(fields, ",") :
          fields \in UNION { [1..n -> RoutingTokens] : n \in 1..MaxTokens } }
    \cup { "", "APRS,*REL**,qAS,EDLF", "APRS,RE*L*,qAS,EDLF" }

\* Coordinates as records write them (test_parser.py:182, 305-321), on both
\* sides of the equator and of the prime meridian, and on them.
LocationStrings ==
    { "5124.56N", "00634.42E", "4557.77S", "01125.01W", "0000.00N",
      "0000.00S", "0000.01S", "00000.01E", "9000.00N", "18000.00W",
      "0100.00N", "0100.00S" }

\* The coordinates a refinement is applied to: the decoded LocationStrings.
Coordinates == { _parse_location(s).value : s \in LocationStrings }

\* The digits a '!W..!' field gives (parser.py:290-291, 388-389).
ThirdDecimals == 0..9

\* A call that has been made and has not returned yet.
Call(op, parser, arg, clock) ==
    Outcome(op, "pending", parser, arg, EmptyDict, clock)

\* The calls of the decoders of the parts of a record a program makes.
DecodeCalls ==
    { Call("_parse_timestamp", "Parser", timestamp_str, clock) :
          timestamp_str \in TimeStrings, clock \in ClockReads }
    \cup { Call("_parse_position", "Parser", pos_header, clock) :
               pos_header \in PositionHeaders, clock \in ClockReads }
    \cup { Call("_parse_id_string", "APRS", id_string, <<0, 0>>) :
               id_string \in APRS_ids }
    \cup { Call("_parse_id_string", "Naviter", id_string, <<0, 0>>) :
               id_string \in Naviter_ids }
    \cup { Call("_parse_origin", "Parser", header, <<0, 0>>) :
               header \in Origins }
    \cup { Outcome("_update_location_decimal", "pending", "Parser", "",
                   [existing |-> c, update |-> d], <<0, 0>>) :
               c \in Coordinates, d \in ThirdDecimals }

\* The call in progress is of op.
Pending(op) == result.exc = "pending" /\ result.op = op

\* The call in progress ends as r does.
Return(r) ==
    /\ result' = [result EXCEPT !.exc = r.exc,
                                !.data = IF r.exc = "none" THEN r.value
                                         ELSE EmptyDict]
    /\ UNCHANGED <<client_vars, parsers, registered>>

\* A call of Parser._parse_timestamp.
call_parse_timestamp ==
    /\ Pending("_parse_timestamp")
    /\ LET r == _parse_timestamp(result.arg, result.clock[1], result.clock[2])
       IN  Return(IF r.exc = "none" THEN Returns([timestamp |-> r.value])
                  ELSE r)

\* A call of Parser._parse_position.
call_parse_position ==
    /\ Pending("_parse_position")
    /\ Return(_parse_position(result.arg, result.clock[1], result.clock[2]))

\* A call of APRS._parse_id_string or of Naviter._parse_id_string.
call_parse_id_string ==
    /\ Pending("_parse_id_string")
    /\ \/ result.parser = "APRS" /\ Return(APRS_parse_id_string(result.arg))
       \/ /\ result.parser = "Naviter"
          /\ Return(Naviter_parse_id_string(result.arg))

\* A call of Parser._parse_origin.
call_parse_origin ==
    /\ Pending("_parse_origin")
    /\ Return(_parse_origin(result.arg))

\* A call of the function Parser._get_location_update_func(update) returns,
\* which is Parser._update_location_decimal(existing, update=update); the
\* arguments are kept beside the value returned.
call_update_location_decimal ==
    /\ Pending("_update_location_decimal")
    /\ LET function == _get_location_update_func(result.data.update)
           existing == result.data.existing
       IN  Return(Returns(
               [existing |-> existing, update |-> function.update,
                new |-> _update_location_decimal(existing,
                                                 function.update)]))

\* ----------------------------------------------------------- specifications

\* OgnClient.__init__ (client.py:30-54); the transport attributes do not
\* exist before the first connect().
InitClient ==
    /\ \E c \in Credentials :
          /\ passcode = c.passcode
          /\ filter_ = c.filter_
    /\ _socket = "unset"
    /\ _sock_file = "unset"
    /\ _authenticated = FALSE
    /\ _kill = FALSE
    /\ _last_send = 0
    /\ sent = <<>>
    /\ wire = <<>>
    /\ wireEnd = "eof"
    /\ pc = "idle"
    /\ line = ""
    /\ reconnect = TRUE
    /\ raw = FALSE
    /\ readLog = <<>>
    /\ delivered = <<>>
    /\ retries = 0
    /\ reads = <<>>
    /\ login_status = ""
    /\ handshake = <<>>
    /\ raised = "none"
    /\ lastOp = "init"
    /\ now = 0

\* The module ogn_lib.parser has been imported and nothing has been called.
Init ==
    /\ InitClient
    /\ parsers = ImportedParsers
    /\ registered = <<>>
    /\ result = Outcome("import", "none", "", "", EmptyDict, <<0, 0>>)

\* The life of a session: connect, receive, disconnect, with the kill flag
\* settable at any time.  The clock stands still and only connect() sends.
Next ==
    \/ connect /\ UNCHANGED parser_vars
    \/ receive /\ UNCHANGED parser_vars
    \/ receive_loop /\ UNCHANGED parser_vars
    \/ disconnect /\ UNCHANGED parser_vars
    \/ set_kill /\ UNCHANGED parser_vars

Spec == Init /\ [][Next]_vars

\* A session on a server that delivers APRS records only, with the clock
\* running and the caller sending and calling _keepalive between calls of
\* receive().
connect_records == connect_session(RecordStreams)

NextClock ==
    \/ connect_records /\ UNCHANGED parser_vars
    \/ receive /\ UNCHANGED parser_vars
    \/ receive_loop /\ UNCHANGED parser_vars
    \/ send_call /\ UNCHANGED parser_vars
    \/ _keepalive /\ UNCHANGED parser_vars
    \/ Tick /\ UNCHANGED parser_vars

SpecClock == Init /\ [][NextClock]_vars

\* A session that connects and receives, and whose receive() is not held up
\* for ever: the thread that called it runs, and readline on a stream that
\* ends returns.
NextReceive ==
    \/ connect /\ UNCHANGED parser_vars
    \/ receive /\ UNCHANGED parser_vars
    \/ receive_loop /\ UNCHANGED parser_vars

SpecReceive ==
    Init /\ [][NextReceive]_vars
         /\ WF_vars(receive_loop /\ UNCHANGED parser_vars)

\* A program that declares decoder classes and hands records to the
\* registry.
NextRegistry ==
    \/ class_statement
    \/ call_dispatch

SpecRegistry == Init /\ [][NextRegistry]_vars

\* A program that calls the decoders of the parts of a record.
NextDecode ==
    \/ call_parse_timestamp
    \/ call_parse_position
    \/ call_parse_id_string
    \/ call_parse_origin
    \/ call_update_location_decimal

\* One call of a decoder, with any of the arguments of DecodeCalls.
InitDecode ==
    /\ InitClient
    /\ parsers = ImportedParsers
    /\ registered = <<>>
    /\ result \in DecodeCalls

SpecDecode == InitDecode /\ [][NextDecode]_vars

\* ------------------------------------------------------------------ claims

\* Exceptions of the transport: a failed read or write of the socket.
TransportErrors == {"BrokenPipeError", "ConnectionRefusedError"}

\* The last call was receive(), it has ended, and it ended with a transport
\* error reaching the caller.
ReceiveFailed ==
    /\ lastOp = "receive"
    /\ pc = "idle"
    /\ raised \in TransportErrors

\* The step is one of receive()'s loop: a readline() and what follows it.
\* The other steps possible while receive() runs change the kill flag or
\* the clock.
LoopStep ==
    /\ pc = "readline"
    /\ _kill' = _kill
    /\ now' = now

\* The step is one of the loop in which a non-empty line is read.
ReadsLine ==
    /\ LoopStep
    /\ wire # <<>>
    /\ strip(Head(wire)) # ""
    /\ _sock_file = "open"

\* parser.py:63: `_, body = raw_message.split('>', 1)` unpacks two values;
\* a line with no '>' makes the decoder registry raise.
splits_at_gt(raw_message) == Len(split1(raw_message, ">")) = 2

\* C1: receive(callback, reconnect=True): when the read loop fails with a
\* transport error connect() is retried, and when receive ends with the
\* connection error the number of connect() attempts it made is the retry
\* budget, never more.
C1_RetryBudgetSpent ==
    /\ retries <= _connection_retries
    /\ (ReceiveFailed /\ reconnect) => retries = _connection_retries

\* C2: every non-empty line the loop reads is handed to the callback, once
\* and in the order of arrival; with raw requested the callback gets the
\* line itself, otherwise the one record the decoder registry makes of it.
C2_EveryLineDelivered ==
    [][ IF ReadsLine
        THEN /\ Len(delivered') = Len(delivered) + 1
             /\ SubSeq(delivered', 1, Len(delivered)) = delivered
             /\ raw => delivered'[Len(delivered')] = strip(Head(wire))
        ELSE delivered' = delivered \/ delivered' = <<>> ]_vars

\* C3: a line whose decoding fails does not end the loop: it is skipped, and
\* every later line that arrives is still read and processed, a decodable
\* one being handed to the callback.
C3_BadLineSkipped ==
    [][ (ReadsLine /\ \E i \in 1..Len(readLog) : ~splits_at_gt(readLog[i]))
        => /\ pc' = "readline"
           /\ readLog' = Append(readLog, strip(Head(wire)))
           /\ splits_at_gt(strip(Head(wire)))
                 => Len(delivered') = Len(delivered) + 1 ]_vars

\* C4: when connect() fails in the validation of the login response, with a
\* login error or a parse error, the read handle and the socket are closed
\* when the error reaches the caller, and the error is the one the
\* validation raised.
C4_ClosedOnValidationFailure ==
    (lastOp = "connect" /\ raised \in {"LoginError", "ParseError"})
        => /\ _sock_file = "closed"
           /\ _socket = "closed"
           /\ raised = _validate_login(login_status).exc

C4_Witness ==
    /\ lastOp = "connect"
    /\ raised = "ParseError"
    /\ login_status = "# logresp 2.1.4-g408ed49"
    /\ _sock_file = "closed"

\* C5: after a connect() that fails the session is not marked authenticated,
\* also when an earlier connect() of the session had been verified.
C5_AuthResetOnConnect ==
    (lastOp = "connect" /\ raised # "none") => ~_authenticated

\* C6: receive(callback, reconnect=False): the first transport failure of
\* the read loop ends the call with that failure, and receive has made no
\* connect() attempt.
C6_NoReconnectPropagates ==
    [][ (LoopStep /\ ~reconnect /\ readline.exc \in TransportErrors)
        => /\ pc' = "idle"
           /\ raised' = readline.exc
           /\ retries' = 0 ]_vars

C6_Witness ==
    /\ ReceiveFailed
    /\ ~reconnect
    /\ readLog # <<>>

\* C7: with the kill flag set the read loop ends: its next step returns and
\* hands no line to the callback.
C7_KillEndsLoop ==
    [][ (LoopStep /\ _kill)
        => /\ pc' = "idle"
           /\ delivered' = delivered ]_vars

\* C8: after receive(reconnect=True) has failed with a connection error the
\* session is disconnected: no open transport, not marked authenticated.
C8_DisconnectedAfterFailure ==
    (ReceiveFailed /\ reconnect)
        => /\ _socket # "open"
           /\ _sock_file # "open"
           /\ ~_authenticated

\* C9: after disconnect() the kill flag is set, the read handle and the
\* socket are not open and nothing was raised; a further disconnect()
\* raises nothing and changes nothing of the session.
C9_DisconnectIdempotent ==
    /\ [](lastOp = "disconnect"
            => /\ _kill
               /\ _sock_file # "open"
               /\ _socket # "open"
               /\ raised = "none")
    /\ [][ (lastOp = "disconnect" /\ lastOp' = "disconnect")
            => /\ session' = session
               /\ raised' = "none" ]_vars
    /\ [][ (lastOp # "disconnect" /\ lastOp' = "disconnect")
            => /\ _kill'
               /\ _socket' = IF _socket = "open" THEN "closed" ELSE _socket
               /\ _sock_file' = IF _sock_file = "open" THEN "closed"
                                ELSE _sock_file ]_vars

C9_Witness ==
    /\ lastOp = "disconnect"
    /\ _kill
    /\ _socket = "closed"
    /\ _sock_file = "closed"
    /\ login_status = "# logresp user verified, server GLIDERN3"

\* C10: the read loop calls keepalive before it processes a line, and
\* keepalive sends the no-op line exactly when more than the threshold has
\* passed since the last send.
C10_KeepaliveInLoop ==
    [][ ReadsLine
        => sent' = IF keepalive_due THEN send(sent, KeepaliveLine)
                   ELSE sent ]_vars

\* ------------------------------------------------------- login validation

\* connect() has got as far as validating the login response it read.
Validated == lastOp = "connect" /\ raised \in {"none", "LoginError", "ParseError"}

\* The response is well formed: it begins with the marker, has one ', '
\* between the user part and the server part, and the user part holds a
\* user name and a status after the marker.
WellFormed(message) ==
    /\ startswith(message, "# logresp")
    /\ Len(split(message, ", ")) = 2
    /\ Len(split(Drop(split(message, ", ")[1], 10), " ")) = 2

\* The status word of a well-formed response.
StatusOf(message) == split(Drop(split(message, ", ")[1], 10), " ")[2]

\* C11: for a well-formed login response, status verified gives an
\* authenticated session, status unverified gives an unauthenticated session
\* without an error whether the passcode is the default '-1' or not, and any
\* other status gives a login error.
C11_LoginResult ==
    (Validated /\ WellFormed(login_status)) =>
        LET status == StatusOf(login_status) IN
        /\ status = "verified" => (raised = "none" /\ _authenticated)
        /\ status = "unverified" => (raised = "none" /\ ~_authenticated)
        /\ status \notin {"verified", "unverified"} => raised = "LoginError"

C11_Witness ==
    /\ Validated
    /\ login_status = "# logresp user unverified, server GLIDERN3"
    /\ passcode = "123456"
    /\ raised = "none"
    /\ ~_authenticated

\* C12: a response that does not begin with '# logresp' fails with a login
\* error, and one that begins with it but does not come apart into a user
\* name, a status and a server part fails with a parse error; in neither
\* case is there a return value, so the session is not left open.
C12_LoginErrors ==
    Validated =>
        /\ ~startswith(login_status, "# logresp")
              => (raised = "LoginError" /\ _socket # "open")
        /\ (startswith(login_status, "# logresp") /\ ~WellFormed(login_status))
              => (raised = "ParseError" /\ _socket # "open")

C12_Witness ==
    /\ Validated
    /\ login_status = "# aprsc 2.1.4-g408ed49"
    /\ raised = "LoginError"
    /\ _socket = "closed"

\* --------------------------------------------------------------------- send

\* The bytes the last send wrote.
LastSent == sent[Len(sent)]

CallsignsOf(dct) ==
    IF dct.destto.kind = "absent" THEN {dct.name}
    ELSE IF dct.destto.kind = "str" THEN {dct.destto.str}
    ELSE {dct.destto.seq[i] : i \in DOMAIN dct.destto.seq}

\* The class statements, in order, that named the token.
Registrations(token) ==
    {i \in DOMAIN registered : token \in CallsignsOf(registered[i])}

\* C16: a class registered with a list of tokens is the decoder of every
\* token of the list; after any sequence of registrations a token has one
\* decoder, the class that named it last (the imported one if none did),
\* and a registration leaves the tokens it does not name as they were.
C16_LastRegistrationWins ==
    /\ [](\A token \in DOMAIN parsers :
            IF Registrations(token) = {}
            THEN token \in DOMAIN ImportedParsers
                 /\ parsers[token] = ImportedParsers[token]
            ELSE \E i \in Registrations(token) :
                    /\ \A j \in Registrations(token) : j <= i
                    /\ parsers[token] = registered[i].name)
    /\ [][(class_statement /\ result'.exc = "none") =>
            LET dct == registered'[Len(registered')] IN
            /\ \A token \in CallsignsOf(dct) :
                  token \in DOMAIN parsers' /\ parsers'[token] = dct.name
            /\ \A token \in DOMAIN parsers \ CallsignsOf(dct) :
                  token \in DOMAIN parsers'
                  /\ parsers'[token] = parsers[token]]_vars

C16_Witness ==
    /\ Len(registered) = 2
    /\ registered[1].destto = SeqDestto(<<"CALLSIGN1", "CALLSIGN2">>)
    /\ registered[2].destto = SeqDestto(<<"CALLSIGN2", "APRS">>)
    /\ parsers["CALLSIGN1"] = "Callsign"
    /\ parsers["CALLSIGN2"] = "Other"
    /\ parsers["APRS"] = "Other"
    /\ parsers["OGNAVI"] = "Naviter"

\* ------------------------------------------------- the decoders of a record

\* The last call was of op and returned.
Decoded(op) == result.op = op /\ result.exc = "none"

\* The number written by the three digits that follow position i of s.
ThreeDigits(s, i) == DigitsValue(SubSeq(s, i + 1, i + 3), 10)

\* C18: the heading and the ground speed of a decoded header are both
\* present or both absent; they are absent exactly when the encoded heading
\* and speed are both zero, and otherwise the heading is the encoded
\* integer and the speed the encoded knots in metres per second
\* (1852 m an hour for a knot).
C18_HeadingSpeedPair ==
    Decoded("_parse_position") =>
        LET quote == find(result.arg, "'")
            heading == ThreeDigits(result.arg, quote)
            speed == ThreeDigits(result.arg, quote + 4)
            data == result.data
        IN  /\ data.heading.is_none <=> data.ground_speed.is_none
            /\ data.heading.is_none <=> (heading = 0 /\ speed = 0)
            /\ ~data.heading.is_none =>
                  /\ data.heading.value = heading
                  /\ data.ground_speed.value.num * 3600
                        = speed * 1852 * data.ground_speed.value.den

C18_Witness ==
    /\ Decoded("_parse_position")
    /\ result.arg = "163148h5124.56N/00634.42E'000/075/A=001551"
    /\ ~result.data.heading.is_none
    /\ result.data.heading.value = 0
    /\ ~result.data.ground_speed.is_none

\* The time of day, in seconds, that the six digits of s write.
TimeWritten(s) ==
    DigitsValue(SubSeq(s, 1, 2), 10) * 3600
    + DigitsValue(SubSeq(s, 3, 4), 10) * 60
    + DigitsValue(SubSeq(s, 5, 6), 10)

C20_IdFlags ==
    Decoded("_parse_id_string") =>
        LET aprs == result.parser = "APRS"
            flags == DigitsValue(SubSeq(result.arg, 1, IF aprs THEN 2 ELSE 4),
                                 16)
            Bits(high, low) ==
                (flags \div Pow(2, low)) % Pow(2, high - low + 1)
            data == result.data
        IN  /\ data.uid = result.arg
            /\ data.stealth
                  <=> (IF aprs THEN Bits(7, 7) ELSE Bits(15, 15)) = 1
            /\ data.do_not_track
                  <=> (IF aprs THEN Bits(6, 6) ELSE Bits(14, 14)) = 1
            /\ data.aircraft_type.value
                  = IF aprs THEN Bits(5, 2) ELSE Bits(13, 10)
            /\ data.address_type.value
                  = IF aprs THEN Bits(1, 0) ELSE Bits(9, 4)

C20_Witness ==
    /\ Decoded("_parse_id_string")
    /\ result.parser = "Naviter"
    /\ result.arg = "8C4F07220E"
    /\ result.data.stealth
    /\ ~result.data.do_not_track
    /\ result.data.aircraft_type.value = 3
    /\ result.data.address_type.value = 4

\* ----------------------------------------------------------------- dispatch

\* The text of a record between its first '>' and the first ',' after it.
DestinationToken(raw_message) ==
    LET body == Drop(raw_message, find(raw_message, ">"))
        comma == find(body, ",")
    IN  IF comma = 0 THEN body ELSE SubSeq(body, 1, comma - 1)

\* The classes created with __default__ set, in order.
Defaults == SelectSeq(registered, LAMBDA dct : dct.default)

\* C14: the registry takes the text between the first '>' and the first ','
\* after it as the destination token and calls the decoder registered for
\* it with the whole record; for a token without a decoder it calls the
\* default decoder when one is set, and fails with ParserNotFoundError
\* otherwise.
C14_Dispatch ==
    (result.op = "__call__" /\ find(result.arg, ">") # 0) =>
        LET token == DestinationToken(result.arg) IN
        IF token \in DOMAIN parsers
        THEN result.parser = parsers[token]
        ELSE IF Defaults # <<>>
        THEN /\ result.parser = Defaults[Len(Defaults)].name
             /\ result.exc # "ParserNotFoundError"
        ELSE result.exc = "ParserNotFoundError"

\* C15: when the decoder the registry selected fails, the dispatch fails
\* with ParseError, never with the decoder's own exception.
C15_DecoderFailureIsParseError ==
    (result.op = "__call__" /\ result.parser # "" /\ result.exc # "none")
        => result.exc = "ParseError"

\* The latitude (i = 1) or longitude (i = 2) written in the header of a
\* record, as Parser._parse_location reads it.
HeaderLocation(raw_message, i) ==
    LET pos_header == split1(raw_message, ":/")[2]
        position == split1(Drop(pos_header, 7), "'")[1]
    IN  _parse_location(split(position, "/")[i]).value

\* C17: the message parse_message returns has no '_update' entry; when the
\* comment of a record of a format decoder carries a '!XY!' marker, the
\* latitude and longitude of the message are those of the header refined by
\* X and Y.
C17_UpdateDiscarded ==
    (result.op = "__call__" /\ result.exc = "none") =>
        /\ "_update" \notin DOMAIN result.data
        /\ (result.parser \in {"APRS", "Naviter"}
               /\ find(result.arg, " !") # 0) =>
              LET marker == find(result.arg, " !")
                  X == DigitsValue(Char(result.arg, marker + 3), 10)
                  Y == DigitsValue(Char(result.arg, marker + 4), 10)
              IN  /\ RatEq(result.data.latitude,
                           _update_location_decimal(
                               HeaderLocation(result.arg, 1), X))
                  /\ RatEq(result.data.longitude,
                           _update_location_decimal(
                               HeaderLocation(result.arg, 2), Y))

\* The last call was of op and has ended.
Finished(op) == result.op = op /\ result.exc # "pending"

\* name is token without the '*' it begins and ends with.
StarsRemoved(token, name) ==
    /\ Len(name) > 0 => Char(name, 1) # "*" /\ Char(name, Len(name)) # "*"
    /\ \E i \in 0..Len(token), j \in 0..Len(token) :
          /\ i <= j
          /\ name = SubSeq(token, i + 1, j)
          /\ \A k \in (1..i) \cup ((j + 1)..Len(token)) :
                 Char(token, k) = "*"

\* C21: the routing part of a header with exactly three comma-separated
\* tokens decodes to no relayer, and with exactly four to the second token
\* without the '*' around it (the name, where the token is a name followed
\* by its '*'); in both cases the destination is the first token and the
\* receiver the last. Any other number of tokens ends with an error and
\* without a record.
C21_RoutingDecode ==
    Finished("_parse_origin") =>
        LET fields == split(result.arg, ",")
            data == result.data
        IN  /\ Len(fields) \in {3, 4} <=> result.exc = "none"
            /\ Len(fields) \notin {3, 4} => data = EmptyDict
            /\ Len(fields) \in {3, 4} =>
                   /\ data.destto = fields[1]
                   /\ data.receiver = fields[Len(fields)]
            /\ Len(fields) = 3 => data.relayer = None
            /\ Len(fields) = 4 =>
                   /\ ~data.relayer.is_none
                   /\ StarsRemoved(fields[2], data.relayer.value)

\* A relayed header has been decoded: the relayer is named without its '*'.
C21_Witness ==
    /\ Decoded("_parse_origin")
    /\ result.arg = "APRS,RELAYER*,qAS,EDLF"
    /\ result.data.relayer = Some("RELAYER")
    /\ result.data.receiver = "EDLF"

\* The magnitude of a number.
RatAbs(a) == IF a.num < 0 THEN Rat(0 - a.num, a.den) ELSE a

\* C23: a coordinate c refined with a digit d of 0..9 is c + d/60000 when c
\* is not negative and c - d/60000 when c is negative; the refinement
\* keeps the sign of the coordinate, does not decrease its magnitude, and
\* with d = 0 leaves it as it was.
C23_ThirdDecimal ==
    Decoded("_update_location_decimal") =>
        LET c == result.data.existing
            d == result.data.update
            new == result.data.new
            zero == Rat(0, 1)
        IN  /\ ~RatLess(c, zero) => RatEq(new, RatAdd(c, Rat(d, 60000)))
            /\ RatLess(c, zero) => RatEq(new, RatAdd(c, Rat(0 - d, 60000)))
            /\ RatLess(c, zero) <=> RatLess(new, zero)
            /\ ~RatLess(RatAbs(new), RatAbs(c))
            /\ d = 0 => RatEq(new, c)
            /\ d > 0 => RatLess(RatAbs(c), RatAbs(new))

\* A southern latitude has been refined: 45 degrees 57.77 minutes south
\* with the digit 7 is 45 degrees 57.777 minutes south.
C23_Witness ==
    /\ Decoded("_update_location_decimal")
    /\ result.data.existing = Rat(-275777, 6000)
    /\ result.data.update = 7
    /\ result.data.new = Rat(-2757777, 60000)

\* C24: a class statement without __destto__ registers the class under its
\* own name; one whose __destto__ is None ends without an error and leaves
\* the registry as it was; one whose __destto__ is an integer ends with
\* TypeError.
C24_RegistrationByDestto ==
    [][class_statement =>
          LET dct == result'.data IN
          /\ dct.destto.kind = "absent" =>
                 /\ result'.exc = "none"
                 /\ dct.name \in DOMAIN parsers'
                 /\ parsers'[dct.name] = dct.name
          /\ dct.destto.kind = "None" =>
                 /\ result'.exc = "none"
                 /\ parsers' = parsers
          /\ dct.destto.kind = "int" => result'.exc = "TypeError"]_vars

\* The text is empty once its whitespace is stripped: a blank line, or the
\* '' readline returns at the end of the stream.
Blank(text) == strip(text) = ""

\* C25: receive() treats a line that is empty after stripping exactly as
\* the end of the stream: it returns at the first such line, a blank line
\* of the server included, with nothing logged or sent and the transport
\* as it was, and reads nothing after it; on a stream that ends it
\* returns, having read no further than the first blank line.
C25_BlankLineEndsReceive ==
    /\ [](/\ \A i \in 1..(Len(reads) - 1) : ~Blank(reads[i])
          /\ pc = "readline" => \A i \in DOMAIN reads : ~Blank(reads[i])
          /\ (lastOp = "receive" /\ pc = "idle" /\ raised = "none") =>
                 reads # <<>> /\ Blank(reads[Len(reads)]))
    /\ [][(receive_loop /\ readline.exc = "none" /\ Blank(readline.text)) =>
             /\ pc' = "idle"
             /\ raised' = "none"
             /\ UNCHANGED <<readLog, delivered, sent, _socket, _sock_file,
                            _authenticated, wireEnd>>]_vars
    /\ (pc = "readline" ~> pc = "idle")

\* receive() has returned at a blank line of the server with a record still
\* to come on the stream.
C25_Witness ==
    /\ lastOp = "receive"
    /\ pc = "idle"
    /\ raised = "none"
    /\ reads = <<BlankLine>>
    /\ wire = <<GoodLine>>

\* The calls of a connect() that meets no transport error, in order.
HandshakeOrder ==
    <<"create_connection", "readline", "sendall", "readline",
      "_validate_login">>

\* The positions of the calls of op in the last connect().
StepsOf(op) == {i \in DOMAIN handshake : handshake[i].op = op}

\* C22: connect() opens the transport first, then reads one greeting line,
\* then sends the authentication line once, then reads one login-response
\* line and validates it: what a connect() has done is a beginning of that
\* order, and the whole of it unless the transport failed; the
\* authentication line is never sent before the greeting is read, and no
\* login response is read before the authentication line is sent.
C22_HandshakeOrder ==
    LET n == Len(handshake)
        auth_line == send(<<>>, _gen_auth_message)[1]
    IN  /\ n <= Len(HandshakeOrder)
        /\ \A i \in 1..n : handshake[i].op = HandshakeOrder[i]
        /\ (lastOp = "connect" /\ raised \in {"none", "LoginError", "ParseError"})
               => /\ n = Len(HandshakeOrder)
                  /\ sent = <<auth_line>>
        /\ \A i \in StepsOf("sendall") :
               /\ StepsOf("sendall") = {i}
               /\ handshake[i].text = auth_line
               /\ \E j \in StepsOf("readline") :
                      j < i /\ handshake[j].text = Greeting
               /\ \A j \in StepsOf("readline") :
                      j < i => StepsOf("readline") \cap (1..i) = {j}
        /\ \A i \in StepsOf("_validate_login") :
               /\ \E k \in StepsOf("sendall"), j \in StepsOf("readline") :
                      /\ k < j /\ j < i
                      /\ StepsOf("readline") \cap (k..i) = {j}
                      /\ handshake[i].text = strip(handshake[j].text)
               /\ login_status = handshake[i].text

\* A connect() has run to a verified login.
C22_Witness ==
    /\ lastOp = "connect"
    /\ raised = "none"
    /\ _authenticated
    /\ Len(handshake) = 5
    /\ handshake[2] = Step("readline", Greeting)
    /\ handshake[4] =
           Step("readline", "# logresp user verified, server GLIDERN3\n")

====
